---- MODULE Spec2Model ----
(***************************************************************************)
(* A model of the jamesql query engine (src/src/utils/mysql2.ts): the args *)
(* validator, the query tree builder, the batch aggregator and the result  *)
(* validator.  JavaScript values are tagged records [t, v]; objects keep   *)
(* their keys in insertion order, as for-in and Object.keys see them.      *)
(***************************************************************************)
EXTENDS Integers, Sequences, FiniteSets, TLC

VARIABLES lookupValue, pc, call, ret

vars == <<lookupValue, pc, call, ret>>

(* ------------------------------ bounds -------------------------------- *)

\* longest parent field path handed to an operation
MaxPath == 1
\* longest array of arg elements handed to validateExternalArgs
MaxElems == 2
\* longest sibling array handed to handleAggregatedQueries
MaxRows == 3
\* longest record list a dataloader answers with
MaxRecords == 2

(* --------------------------- JavaScript values ------------------------ *)

Undef == [t |-> "undefined", v |-> 0]
Null == [t |-> "null", v |-> 0]
Bool(b) == [t |-> "boolean", v |-> b]
Num(n) == [t |-> "number", v |-> n]
Str(s) == [t |-> "string", v |-> s]
Arr(s) == [t |-> "array", v |-> s]
\* an object: the sequence of its [k, v] entries in insertion order
Obj(kv) == [t |-> "object", v |-> kv]
KV(k, val) == [k |-> k, v |-> val]
\* the exported lookupSymbol, a value equal to nothing but itself
lookupSymbol == [t |-> "symbol", v |-> "lookup"]

isObject(ele) == ele.t = "object"
IsArray(ele) == ele.t = "array"
\* JavaScript truthiness of the values of the model
Truthy(ele) ==
  CASE ele.t = "undefined" -> FALSE
    [] ele.t = "null" -> FALSE
    [] ele.t = "boolean" -> ele.v
    [] ele.t = "number" -> ele.v # 0
    [] ele.t = "string" -> ele.v # ""
    [] OTHER -> TRUE

Keys(o) == [i \in 1..Len(o.v) |-> o.v[i].k]
KeySet(o) == {o.v[i].k : i \in 1..Len(o.v)}
HasKey(o, k) == isObject(o) /\ k \in KeySet(o)
\* o[k] on an object: undefined for a key it does not hold
Get(o, k) ==
  IF HasKey(o, k) THEN o.v[CHOOSE i \in 1..Len(o.v) : o.v[i].k = k].v ELSE Undef
\* o[k] = val: in place for a key the object holds, appended otherwise
Put(o, k, val) ==
  IF HasKey(o, k)
  THEN Obj([i \in 1..Len(o.v) |-> IF o.v[i].k = k THEN KV(k, val) ELSE o.v[i]])
  ELSE Obj(Append(o.v, KV(k, val)))
\* delete o[k]
Del(o, k) == Obj(SelectSeq(o.v, LAMBDA e : e.k # k))

SeqToSet(s) == {s[i] : i \in 1..Len(s)}
\* the sequences over S of length at most n
SeqsUpTo(S, n) == UNION {[1..m -> S] : m \in 0..n}

(* --------------------------- outcomes of a call ----------------------- *)

\* message of an error: its text and, for the unknown-args error, the keys
\* joined into it
Msg(text) == [text |-> text, keys |-> <<>>]
NoMsg == Msg("")

\* a normal return; calls is the log of the user functions invoked
Return(val, calls) ==
  [kind |-> "ok", value |-> val, message |-> NoMsg, fieldPath |-> <<>>,
   calls |-> calls]
\* a thrown error of class kind (JomqlArgsError, ..., or a raw TypeError)
Throw(kind, msg, fieldPath, calls) ==
  [kind |-> kind, value |-> Undef, message |-> msg, fieldPath |-> fieldPath,
   calls |-> calls]
\* r rethrown through a caller that had already logged calls
Rethrow(r, calls) == [r EXCEPT !.calls = calls \o r.calls]

(* ------------------------- the type registry -------------------------- *)

\* a JomqlScalarType, JomqlInputType or JomqlObjectType instance, or a
\* JomqlInputTypeLookup / JomqlObjectTypeLookup naming one
ScalarT(name) == [kind |-> "scalar", name |-> name]
InputT(name) == [kind |-> "input", name |-> name]
InputLookup(name) == [kind |-> "inputLookup", name |-> name]
ObjectT(name) == [kind |-> "object", name |-> name]
ObjectLookup(name) == [kind |-> "objectLookup", name |-> name]

NoArr == [set |-> FALSE, allowNullElement |-> FALSE]
ArrOpt(allowNullElement) == [set |-> TRUE, allowNullElement |-> allowNullElement]

\* the definition of a JomqlInputFieldType
ArgDef(type, required, allowNull, arrayOptions) ==
  [type |-> type, required |-> required, allowNull |-> allowNull,
   arrayOptions |-> arrayOptions]

\* the scalars of the schema: "string" has no transform, "number" has both
ScalarDefinition(name) ==
  CASE name = "number" -> [name |-> name, parseValue |-> TRUE, serialize |-> TRUE]
    [] OTHER -> [name |-> name, parseValue |-> FALSE, serialize |-> FALSE]

\* the number scalar's parseValue and serialize: a number as it is, a
\* numeric string as its number, anything else throws
NumberTransform(ele) ==
  CASE ele.t = "number" -> [thrown |-> FALSE, value |-> ele]
    [] ele = Str("0") -> [thrown |-> FALSE, value |-> Num(0)]
    [] ele = Str("1") -> [thrown |-> FALSE, value |-> Num(1)]
    [] ele = Str("2") -> [thrown |-> FALSE, value |-> Num(2)]
    [] OTHER -> [thrown |-> TRUE, value |-> Undef]

\* the input types of the schema, fields in declaration order
InputTypeDefinition(name) ==
  CASE name = "Paging" ->
         [fields |-> <<KV("limit", ArgDef(ScalarT("number"), FALSE, FALSE, NoArr))>>,
          inputsValidator |-> TRUE]
    [] name = "Filter" ->
         [fields |-> <<KV("name", ArgDef(ScalarT("string"), TRUE, FALSE, NoArr)),
                       KV("paging", ArgDef(InputLookup("Paging"), FALSE, TRUE, NoArr)),
                       KV("ids", ArgDef(ScalarT("number"), FALSE, TRUE, ArrOpt(FALSE)))>>,
          inputsValidator |-> FALSE]
    [] OTHER -> [fields |-> <<>>, inputsValidator |-> FALSE]

\* the names registered in inputTypeDefs; a lookup of any other name fails
inputTypeDefs == {"Paging", "Filter"}

(* ------------------------- validateExternalArgs ----------------------- *)

\* line 479: args count as provided when they are truthy
argsProvided(args) == Truthy(args)

\* requiredMissing with the check skipped for a nullable arg
requiredMissing_UnlessNullable(argDefinition, args) ==
  argDefinition.required /\ ~argDefinition.allowNull /\ args = Undef

\* line 491: a required arg that is undefined
requiredMissing(argDefinition, args) ==
  argDefinition.required /\ args = Undef

\* lines 570-584: the keys of arg left once every declared key is deleted
keysToValidate(arg, fields) ==
  SelectSeq(Keys(arg), LAMBDA k : \A i \in 1..Len(fields) : fields[i].k # k)

\* unknownArgsError naming only the first key met
unknownArgsError_FirstOnly(unknown, fieldPath, calls) ==
  Throw("JomqlArgsError", [text |-> "Unknown args", keys |-> <<unknown[1]>>],
        fieldPath, calls)

\* lines 587-592: one error naming all the keys left, joined by ","
unknownArgsError(unknown, fieldPath, calls) ==
  Throw("JomqlArgsError", [text |-> "Unknown args", keys |-> unknown],
        fieldPath, calls)

FnCall(fn, arg, fieldPath) == [fn |-> fn, arg |-> arg, fieldPath |-> fieldPath]

\* lines 603-621: the scalar branch; parsedArgs ?? args is returned
parseScalarArgs(args, argDefinition, scalar, fieldPath) ==
  IF scalar.parseValue /\ args # Null
  THEN IF IsArray(args) /\ argDefinition.arrayOptions.set
       THEN LET n == Len(args.v)
                bad == {i \in 1..n : NumberTransform(args.v[i]).thrown}
                stop == IF bad = {} THEN n
                        ELSE CHOOSE i \in bad : \A j \in bad : i <= j
                calls == [i \in 1..stop |-> FnCall("parseValue", args.v[i], fieldPath)]
            IN IF bad = {}
               THEN Return(Arr([i \in 1..n |-> NumberTransform(args.v[i]).value]), calls)
               ELSE Throw("JomqlArgsError", Msg("Invalid scalar value"), fieldPath, calls)
       ELSE LET p == NumberTransform(args)
                calls == <<FnCall("parseValue", args, fieldPath)>>
            IN IF p.thrown
               THEN Throw("JomqlArgsError", Msg("Invalid scalar value"), fieldPath, calls)
               ELSE Return(p.value, calls)
  ELSE Return(args, <<>>)

RECURSIVE validateExternalArgs(_, _, _)
RECURSIVE validateInputFields(_, _, _, _, _)
RECURSIVE validateInputArg(_, _, _, _)
RECURSIVE validateInputArgs(_, _, _, _, _, _, _)

\* Every operation below yields the set of the outcomes it can end with (one
\* outcome, where the code is deterministic).

\* lines 571-584: the declared fields from the i-th on, validated into arg
validateInputFields(arg, fields, i, fieldPath, calls) ==
  IF i > Len(fields) THEN {Return(arg, calls)}
  ELSE UNION {IF r.kind # "ok" THEN {Rethrow(r, calls)}
              ELSE validateInputFields(
                     IF r.value = Undef THEN Del(arg, fields[i].k)
                     ELSE Put(arg, fields[i].k, r.value),
                     fields, i + 1, fieldPath, calls \o r.calls) :
              r \in validateExternalArgs(Get(arg, fields[i].k), fields[i].v,
                                         Append(fieldPath, fields[i].k))}

\* lines 562-598: the body of the loop over argsArray, for one arg
validateInputArg(arg, argDefinition, inputDef, fieldPath) ==
  IF ~isObject(arg) /\ ~argDefinition.allowNull
  THEN {Throw("JomqlArgsError", Msg("Object expected"), fieldPath, <<>>)}
  ELSE IF isObject(arg)
  THEN {IF r.kind # "ok" THEN r
        ELSE IF Len(keysToValidate(arg, inputDef.fields)) > 0
        THEN unknownArgsError(keysToValidate(arg, inputDef.fields), fieldPath, r.calls)
        ELSE IF inputDef.inputsValidator
        THEN Return(r.value,
                    Append(r.calls, FnCall("inputsValidator", r.value, fieldPath)))
        ELSE r :
        r \in validateInputFields(arg, inputDef.fields, 1, fieldPath, <<>>)}
  ELSE {Return(arg, <<>>)}

\* lines 561-599: the loop over argsArray from the i-th arg on; done holds
\* the args already processed, as validation left them
validateInputArgs(argsArray, i, argDefinition, inputDef, fieldPath, done, calls) ==
  IF i > Len(argsArray) THEN {Return(Arr(done), calls)}
  ELSE UNION {IF r.kind # "ok" THEN {Rethrow(r, calls)}
              ELSE validateInputArgs(argsArray, i + 1, argDefinition, inputDef,
                                     fieldPath, Append(done, r.value),
                                     calls \o r.calls) :
              r \in validateInputArg(argsArray[i], argDefinition, inputDef, fieldPath)}

\* lines 470-631.  The value of an ok outcome is the value returned; for an
\* input type that is args itself, modified in place
validateExternalArgs(args, argDefinition, fieldPath) ==
  IF argDefinition = Undef
  THEN IF argsProvided(args)
       THEN {Throw("JomqlArgsError", Msg("Not expecting any args"), fieldPath, <<>>)}
       ELSE {Return(Undef, <<>>)}
  ELSE IF ~argDefinition.required /\ args = Undef THEN {Return(Undef, <<>>)}
  ELSE IF requiredMissing(argDefinition, args)
  THEN {Throw("JomqlArgsError", Msg("Args is required"), fieldPath, <<>>)}
  ELSE IF ~argDefinition.allowNull /\ args = Null
  THEN {Throw("JomqlArgsError", Msg("Null field is not allowed"), fieldPath, <<>>)}
  ELSE IF argDefinition.arrayOptions.set /\ argDefinition.allowNull
          /\ ~IsArray(args) /\ args # Null
  THEN {Throw("JomqlArgsError", Msg("Field must be Array or null"), fieldPath, <<>>)}
  ELSE IF argDefinition.arrayOptions.set /\ ~argDefinition.allowNull /\ ~IsArray(args)
  THEN {Throw("JomqlArgsError", Msg("Array expected"), fieldPath, <<>>)}
  ELSE IF argDefinition.type.kind = "inputLookup"
          /\ argDefinition.type.name \notin inputTypeDefs
  THEN {Throw("JomqlArgsError", Msg("Unknown inputDef"), fieldPath, <<>>)}
  ELSE IF argDefinition.type.kind \in {"input", "inputLookup"}
  THEN IF IsArray(args) /\ argDefinition.arrayOptions.set
       THEN IF ~argDefinition.arrayOptions.allowNullElement
               /\ \E i \in 1..Len(args.v) : args.v[i] = Null
            THEN {Throw("JomqlArgsError",
                        Msg("Null field is not allowed on array element"),
                        fieldPath, <<>>)}
            ELSE validateInputArgs(args.v, 1, argDefinition,
                                   InputTypeDefinition(argDefinition.type.name),
                                   fieldPath, <<>>, <<>>)
       ELSE {IF r.kind # "ok" THEN r ELSE Return(r.value.v[1], r.calls) :
             r \in validateInputArgs(<<args>>, 1, argDefinition,
                                     InputTypeDefinition(argDefinition.type.name),
                                     fieldPath, <<>>, <<>>)}
  ELSE {parseScalarArgs(args, argDefinition,
                        ScalarDefinition(argDefinition.type.name), fieldPath)}

(* ------------------------ object types of the schema ------------------ *)

\* an ObjectTypeDefinitionField or RootResolverDefinition; resolver, defer
\* and root tell whether it has a resolver, is deferred, is a root resolver
FieldDef(type, allowNull, arrayOptions, args, hidden, resolver) ==
  [type |-> type, allowNull |-> allowNull, arrayOptions |-> arrayOptions,
   args |-> args, hidden |-> hidden, resolver |-> resolver,
   defer |-> FALSE, root |-> FALSE]

\* the object types of the schema, fields in declaration order
ObjectTypeDefinition(name) ==
  CASE name = "User" ->
         <<KV("id", FieldDef(ScalarT("number"), FALSE, NoArr, Undef, FALSE, FALSE)),
           KV("name", FieldDef(ScalarT("string"), TRUE, NoArr, Undef, FALSE, FALSE)),
           KV("secret", FieldDef(ScalarT("string"), TRUE, NoArr, Undef, TRUE, FALSE)),
           KV("score", FieldDef(ScalarT("number"), TRUE, NoArr,
                                ArgDef(ScalarT("number"), TRUE, FALSE, NoArr),
                                FALSE, TRUE)),
           KV("posts", FieldDef(ObjectLookup("Post"), FALSE, ArrOpt(FALSE),
                                ArgDef(InputLookup("Paging"), FALSE, FALSE, NoArr),
                                FALSE, FALSE)),
           KV("friend", FieldDef(ObjectLookup("User"), TRUE, NoArr, Undef, FALSE, TRUE)),
           KV("ghost", FieldDef(ObjectLookup("Ghost"), TRUE, NoArr, Undef, FALSE, FALSE))>>
    [] name = "Post" ->
         <<KV("id", FieldDef(ScalarT("number"), FALSE, NoArr, Undef, FALSE, FALSE)),
           KV("title", FieldDef(ScalarT("string"), FALSE, NoArr, Undef, FALSE, FALSE)),
           KV("draft", FieldDef(ScalarT("string"), TRUE, NoArr, Undef, TRUE, FALSE)),
           KV("author", FieldDef(ObjectT("User"), FALSE, NoArr, Undef, FALSE, FALSE))>>
    [] OTHER -> <<>>

\* the names registered in objectTypeDefs; a lookup of any other name fails
objectTypeDefs == {"User", "Post"}

\* the names every fields object inherits from Object.prototype, which
\* the in operator and a property read find as they find its own keys
ObjectPrototype == {"toString", "constructor"}

\* fields[field] for an inherited name: a function of Object.prototype,
\* whose type, args, hidden and resolver all read undefined
InheritedMember(field) ==
  FieldDef([kind |-> "none", name |-> field], FALSE, NoArr, Undef, FALSE, FALSE)

\* field in fieldType.definition.fields, and fields[field]
Declares(fields, field) ==
  \/ \E i \in 1..Len(fields) : fields[i].k = field
  \/ field \in ObjectPrototype
FieldOf(fields, field) ==
  IF \E i \in 1..Len(fields) : fields[i].k = field
  THEN fields[CHOOSE i \in 1..Len(fields) : fields[i].k = field].v
  ELSE InheritedMember(field)

IsObjectKind(type) == type.kind \in {"object", "objectLookup"}

(* ----------------------- generateJomqlResolverTree -------------------- *)

\* a JomqlResolverNode; nested is undefined or an object of field -> node
Node(typeDef, query, args, nested) ==
  [typeDef |-> typeDef, query |-> query, args |-> args, nested |-> nested]

\* the outcome of the builder: the node, and fieldValue as the in-place
\* args validation left it
GenReturn(node, calls, after) ==
  [kind |-> "ok", value |-> node, message |-> NoMsg, fieldPath |-> <<>>,
   calls |-> calls, after |-> after]

\* line 840-841: the field value is the configured sentinel or the symbol
isLookupField(fieldValue) ==
  fieldValue = lookupValue \/ fieldValue = lookupSymbol

\* fieldShapeError without the check of a leaf's required args
fieldShapeError_NoArgsRequired(fieldValue, resolverObject, isLeafNode) ==
  IF ~isLookupField(fieldValue) /\ ~isObject(fieldValue)
  THEN "Invalid field RHS"
  ELSE IF isLeafNode /\ isObject(fieldValue)
          /\ (~HasKey(fieldValue, "__args") \/ Len(fieldValue.v) # 1)
  THEN "Scalar node can only accept __args and no other field"
  ELSE IF ~isLeafNode /\ isLookupField(fieldValue)
  THEN "Resolved node must be an object with nested fields"
  ELSE ""

\* lines 845-879: the message of the shape check that rejects fieldValue,
\* "" when none does
fieldShapeError(fieldValue, resolverObject, isLeafNode) ==
  IF ~isLookupField(fieldValue) /\ ~isObject(fieldValue)
  THEN "Invalid field RHS"
  ELSE IF isLeafNode /\ isObject(fieldValue)
          /\ (~HasKey(fieldValue, "__args") \/ Len(fieldValue.v) # 1)
  THEN "Scalar node can only accept __args and no other field"
  ELSE IF ~isLeafNode /\ isLookupField(fieldValue)
  THEN "Resolved node must be an object with nested fields"
  ELSE IF isLeafNode /\ resolverObject.args # Undef /\ resolverObject.args.required
          /\ ~isObject(fieldValue)
  THEN "Args required"
  ELSE ""

\* lines 906-920: the message that denies a requested field, "" when the
\* type declares it and does not hide it
deniedField(fields, field) ==
  IF ~Declares(fields, field) THEN "Unknown field"
  ELSE IF FieldOf(fields, field).hidden THEN "Hidden field"
  ELSE ""

\* line 924: the builder recurses into the children of this field
descends(resolverObject, fullTree) == fullTree \/ ~resolverObject.resolver

RECURSIVE generateJomqlResolverTree(_, _, _, _)
RECURSIVE generateNestedNodes(_, _, _, _, _, _, _, _)

\* lines 900-931: the loop over the keys of fieldValue from the i-th on;
\* nestedNodes holds the nodes built so far, fieldValue the children as
\* their own builds left them
generateNestedNodes(fieldValue, i, fields, resolverObject, fieldPath, fullTree, nestedNodes, calls) ==
  IF i > Len(fieldValue.v) THEN {GenReturn(nestedNodes, calls, fieldValue)}
  ELSE IF fieldValue.v[i].k = "__args"
  THEN generateNestedNodes(fieldValue, i + 1, fields, resolverObject,
                           fieldPath, fullTree, nestedNodes, calls)
  ELSE IF deniedField(fields, fieldValue.v[i].k) # ""
  THEN {Throw("JomqlQueryError", Msg(deniedField(fields, fieldValue.v[i].k)),
              Append(fieldPath, fieldValue.v[i].k), calls)}
  ELSE IF descends(resolverObject, fullTree)
  THEN UNION {IF r.kind # "ok" THEN {Rethrow(r, calls)}
              ELSE generateNestedNodes(Put(fieldValue, fieldValue.v[i].k, r.after),
                                       i + 1, fields, resolverObject, fieldPath,
                                       fullTree,
                                       Put(nestedNodes, fieldValue.v[i].k, r.value),
                                       calls \o r.calls) :
              r \in generateJomqlResolverTree(fieldValue.v[i].v,
                                              FieldOf(fields, fieldValue.v[i].k),
                                              Append(fieldPath, fieldValue.v[i].k),
                                              fullTree)}
  ELSE generateNestedNodes(fieldValue, i + 1, fields, resolverObject,
                           fieldPath, fullTree, nestedNodes, calls)

\* lines 884-886 and 890-894: __args validated.  An input-typed value is
\* rewritten in place, so the node's args (taken from fieldValue before)
\* show it; the value validateExternalArgs returns is dropped
argsInPlace(fieldValue, resolverObject) ==
  /\ resolverObject.args # Undef
  /\ resolverObject.args.type.kind \in {"input", "inputLookup"}
  /\ Get(fieldValue, "__args") # Undef

\* lines 815-940
generateJomqlResolverTree(fieldValue, resolverObject, fieldPath, fullTree) ==
  IF resolverObject.type.kind = "objectLookup"
     /\ resolverObject.type.name \notin objectTypeDefs
  THEN {Throw("JomqlQueryError", Msg("TypeDef not found"), fieldPath, <<>>)}
  ELSE IF fieldShapeError(fieldValue, resolverObject,
                          ~IsObjectKind(resolverObject.type)) # ""
  THEN {Throw("JomqlQueryError",
              Msg(fieldShapeError(fieldValue, resolverObject,
                                  ~IsObjectKind(resolverObject.type))),
              fieldPath, <<>>)}
  ELSE IF ~isObject(fieldValue)
  THEN {GenReturn(Node(resolverObject, Obj(<<>>), Null, Undef), <<>>, fieldValue)}
  ELSE UNION {
    IF a.kind # "ok" THEN {a}
    ELSE {IF n.kind # "ok" THEN n
          ELSE GenReturn(Node(resolverObject, Del(n.after, "__args"),
                              IF Get(fieldValue, "__args") = Undef THEN Null
                              ELSE Get(n.after, "__args"),
                              n.value),
                         n.calls, n.after) :
          n \in IF ~IsObjectKind(resolverObject.type)
                THEN {GenReturn(Undef, a.calls,
                                IF argsInPlace(fieldValue, resolverObject)
                                THEN Put(fieldValue, "__args", a.value)
                                ELSE fieldValue)}
                ELSE generateNestedNodes(
                       IF argsInPlace(fieldValue, resolverObject)
                       THEN Put(fieldValue, "__args", a.value) ELSE fieldValue,
                       1, ObjectTypeDefinition(resolverObject.type.name),
                       resolverObject, fieldPath, fullTree, Obj(<<>>), a.calls)} :
    a \in validateExternalArgs(Get(fieldValue, "__args"), resolverObject.args,
                               Append(fieldPath, "__args"))}

(* -------------------------- validateJomqlResults ---------------------- *)

\* ele[field] as JavaScript reads it: a TypeError on null and undefined,
\* undefined on a primitive or an array, the entry on an object
PropertyRead(ele, field) ==
  IF ele.t \in {"null", "undefined"} THEN [thrown |-> TRUE, value |-> Undef]
  ELSE [thrown |-> FALSE, value |-> Get(ele, field)]

IsNullish(value) == value = Null \/ value = Undef

\* resultNullishError that takes only undefined for a missing value
resultNullishError_UndefinedOnly(value, resolverObject, arrayOptions) ==
  LET isNullAllowed == IF arrayOptions.set THEN arrayOptions.allowNullElement
                       ELSE resolverObject.allowNull
  IN IF value = Undef /\ ~isNullAllowed
     THEN IF arrayOptions.set THEN "Null value not allowed for array element"
          ELSE "Null value not allowed"
     ELSE ""

\* lines 785-801 (validateResultNullish): the message thrown, "" when none
resultNullishError(value, resolverObject, arrayOptions) ==
  LET isNullAllowed == IF arrayOptions.set THEN arrayOptions.allowNullElement
                       ELSE resolverObject.allowNull
  IN IF IsNullish(value) /\ ~isNullAllowed
     THEN IF arrayOptions.set THEN "Null value not allowed for array element"
          ELSE "Null value not allowed"
     ELSE ""

\* lines 747-782 (validateResultFields): the message thrown, "" when none
resultFieldsError(value, resolverObject) ==
  IF resolverObject.arrayOptions.set
  THEN IF IsArray(value)
       THEN IF \E i \in 1..Len(value.v) :
                 resultNullishError(value.v[i], resolverObject,
                                    resolverObject.arrayOptions) # ""
            THEN "Null value not allowed for array element"
            ELSE ""
       ELSE IF ~resolverObject.allowNull THEN "Array expected"
       ELSE IF value # Null THEN "Array or null expected"
       ELSE ""
  ELSE resultNullishError(value, resolverObject, resolverObject.arrayOptions)

\* lines 716-741: the serialize step of a scalar leaf
serializeLeaf(jomqlResultsNode, typeDef, scalar, fieldPath) ==
  IF scalar.serialize /\ ~IsNullish(jomqlResultsNode)
  THEN IF IsArray(jomqlResultsNode) /\ typeDef.arrayOptions.set
       THEN LET n == Len(jomqlResultsNode.v)
                bad == {i \in 1..n : NumberTransform(jomqlResultsNode.v[i]).thrown}
                stop == IF bad = {} THEN n
                        ELSE CHOOSE i \in bad : \A j \in bad : i <= j
                calls == [i \in 1..stop |->
                            FnCall("serialize", jomqlResultsNode.v[i], fieldPath)]
            IN IF bad = {}
               THEN Return(Arr([i \in 1..n |->
                                  NumberTransform(jomqlResultsNode.v[i]).value]),
                           calls)
               ELSE Throw("JomqlResultError", Msg("Invalid scalar value"),
                          fieldPath, calls)
       ELSE LET p == NumberTransform(jomqlResultsNode)
                calls == <<FnCall("serialize", jomqlResultsNode, fieldPath)>>
            IN IF p.thrown
               THEN Throw("JomqlResultError", Msg("Invalid scalar value"),
                          fieldPath, calls)
               ELSE Return(p.value, calls)
  ELSE Return(jomqlResultsNode, <<>>)

\* lines 691-743: a node without nested children
validateLeaf(jomqlResultsNode, typeDef, fieldPath) ==
  IF resultFieldsError(jomqlResultsNode, typeDef) # ""
  THEN Throw("JomqlResultError", Msg(resultFieldsError(jomqlResultsNode, typeDef)),
             fieldPath, <<>>)
  ELSE IF typeDef.type.kind = "objectLookup" /\ typeDef.type.name \notin objectTypeDefs
  THEN Throw("JomqlQueryError", Msg("TypeDef not found"), fieldPath, <<>>)
  ELSE IF IsObjectKind(typeDef.type) THEN Return(jomqlResultsNode, <<>>)
  ELSE serializeLeaf(jomqlResultsNode, typeDef,
                     ScalarDefinition(typeDef.type.name), fieldPath)

\* line 648: the object an array element's fields are collected in
arrReturnValue(ele) == Obj(<<>>)

\* tempReturnValue that is the results node itself
tempReturnValue_Results(jomqlResultsNode) == jomqlResultsNode

\* line 667: the object the node's fields are collected in, a new one
tempReturnValue(jomqlResultsNode) == Obj(<<>>)

RECURSIVE validateJomqlResults(_, _, _)
RECURSIVE validateNestedFields(_, _, _, _, _, _)
RECURSIVE validateElements(_, _, _, _, _, _, _)

\* lines 649-655 and 682-688: the loop over the nested fields from the i-th
\* on, reading source[field]; acc is the object built so far.  The set of
\* the outcomes the loop can end with
validateNestedFields(source, nested, i, fieldPath, acc, calls) ==
  IF i > Len(nested.v) THEN {Return(acc, calls)}
  ELSE LET field == nested.v[i].k
           read == PropertyRead(source, field)
       IN IF read.thrown
          THEN {Throw("TypeError", Msg("Cannot read property of null"), <<>>, calls)}
          ELSE UNION {IF r.kind # "ok" THEN {Rethrow(r, calls)}
                      ELSE validateNestedFields(source, nested, i + 1, fieldPath,
                                                Put(acc, field, r.value),
                                                calls \o r.calls) :
                      r \in validateJomqlResults(read.value, nested.v[i].v,
                                                 Append(fieldPath, field))}

\* lines 646-658: Promise.all over the elements from the i-th on.  Every
\* element's callback runs; the promise rejects with the error of the
\* element that rejects first in time, which the microtask order decides:
\* any failed element's error is an outcome
validateElements(elements, i, nested, fieldPath, done, calls, failed) ==
  IF i > Len(elements)
  THEN IF failed = {} THEN {Return(Arr(done), calls)}
       ELSE {[f EXCEPT !.calls = calls] : f \in failed}
  ELSE UNION {IF r.kind # "ok"
              THEN validateElements(elements, i + 1, nested, fieldPath, done,
                                    calls \o r.calls, failed \cup {r})
              ELSE validateElements(elements, i + 1, nested, fieldPath,
                                    Append(done, r.value), calls \o r.calls, failed) :
              r \in validateNestedFields(elements[i], nested, 1, fieldPath,
                                         arrReturnValue(elements[i]), <<>>)}

\* lines 634-744: the set of the outcomes of the call
validateJomqlResults(jomqlResultsNode, jomqlResolverNode, fieldPath) ==
  LET nested == jomqlResolverNode.nested
      typeDef == jomqlResolverNode.typeDef
  IN IF nested # Undef
     THEN IF jomqlResultsNode = Null THEN {Return(Null, <<>>)}
          ELSE IF typeDef.arrayOptions.set
          THEN IF IsArray(jomqlResultsNode)
               THEN validateElements(jomqlResultsNode.v, 1, nested, fieldPath,
                                     <<>>, <<>>, {})
               ELSE {Throw("JomqlResultError", Msg("Expecting array or null"),
                           fieldPath, <<>>)}
          ELSE IF Len(nested.v) < 1
          THEN {Return(IF isObject(jomqlResultsNode)
                       THEN tempReturnValue(jomqlResultsNode) ELSE Null, <<>>)}
          ELSE IF ~isObject(jomqlResultsNode)
          THEN {Throw("JomqlResultError", Msg("Expecting object"), fieldPath, <<>>)}
          ELSE validateNestedFields(jomqlResultsNode, nested, 1, fieldPath,
                                    tempReturnValue(jomqlResultsNode), <<>>)
     ELSE {validateLeaf(jomqlResultsNode, typeDef, fieldPath)}

(* ------------------------ handleAggregatedQueries --------------------- *)

\* an entry of a JomqlResolverObject: whether typeDef has a dataloader, the
\* field's query (undefined for a bare lookup), typename, nested
ResolverEntry(dataloader, query, typename, nested) ==
  [dataloader |-> dataloader, query |-> query, typename |-> typename,
   nested |-> nested]

\* aggregateIds collecting into a list: a key shared by rows is repeated
aggregateIds_NoSet(resultsArray, field) ==
  LET truthy == SelectSeq(resultsArray, LAMBDA r : Truthy(r))
  IN [i \in 1..Len(truthy) |-> Get(truthy[i], field)]

\* lines 395-400: the keys of the truthy rows at field, each once, in the
\* order a Set keeps them
aggregateIds(resultsArray, field) ==
  LET held == [i \in 1..Len(resultsArray) |-> Get(resultsArray[i], field)]
      truthy == {i \in 1..Len(resultsArray) : Truthy(resultsArray[i])}
      first == {i \in truthy : \A j \in truthy : j < i => held[j] # held[i]}
      pick[n \in 0..Len(resultsArray)] ==
        IF n = 0 THEN <<>>
        ELSE IF n \in first THEN Append(pick[n - 1], held[n]) ELSE pick[n - 1]
  IN pick[Len(resultsArray)]

\* lines 413-416 and recordMap.get: the record last set under id, undefined
\* when none was
recordMapGet(aggregatedResults, id) ==
  LET hits == {i \in 1..Len(aggregatedResults) : Get(aggregatedResults[i], "id") = id}
  IN IF hits = {} THEN Undef
     ELSE aggregatedResults[CHOOSE i \in hits : \A j \in hits : j <= i]

\* joinRecords that leaves an unmatched key in place
joinRecords_KeepUnmatched(resultsArray, field, aggregatedResults) ==
  [i \in 1..Len(resultsArray) |->
     IF Truthy(resultsArray[i])
        /\ recordMapGet(aggregatedResults, Get(resultsArray[i], field)) # Undef
     THEN Put(resultsArray[i], field,
              recordMapGet(aggregatedResults, Get(resultsArray[i], field)))
     ELSE resultsArray[i]]

\* lines 419-421: every truthy row's field replaced by its joined record
joinRecords(resultsArray, field, aggregatedResults) ==
  [i \in 1..Len(resultsArray) |->
     IF Truthy(resultsArray[i])
     THEN Put(resultsArray[i], field,
              recordMapGet(aggregatedResults, Get(resultsArray[i], field)))
     ELSE resultsArray[i]]

\* nestedResultsArray listing the siblings' values in reverse order
nestedResultsArray_Reversed(resultsArray, field) ==
  [i \in 1..Len(resultsArray) |->
     IF Truthy(resultsArray[Len(resultsArray) + 1 - i])
     THEN Get(resultsArray[Len(resultsArray) + 1 - i], field) ELSE Undef]

\* lines 425-427: the array handed one level down
nestedResultsArray(resultsArray, field) ==
  [i \in 1..Len(resultsArray) |->
     IF Truthy(resultsArray[i]) THEN Get(resultsArray[i], field) ELSE Undef]

\* the rows after the recursion: the nested objects are the rows' own, so
\* what the recursion wrote into them shows in the rows
nestedWritten(resultsArray, field, nestedRows) ==
  [i \in 1..Len(resultsArray) |->
     IF Truthy(resultsArray[i]) /\ isObject(Get(resultsArray[i], field))
     THEN Put(resultsArray[i], field, nestedRows[i])
     ELSE resultsArray[i]]

LoaderCall(field, ids, query, typename, fieldPath) ==
  [field |-> field, ids |-> ids, query |-> query, typename |-> typename,
   fieldPath |-> fieldPath]

RECURSIVE handleAggregatedQueries(_, _, _, _, _, _, _)

\* lines 383-439, from the i-th field of jomqlResolverObject on.  answer is
\* the record list the dataloaders answer with; the outcome is the rows as
\* the joins left them and the dataloader calls made
handleAggregatedQueries(resultsArray, jomqlResolverObject, i, typename, fieldPath, answer, calls) ==
  IF i > Len(jomqlResolverObject.v) THEN [rows |-> resultsArray, calls |-> calls]
  ELSE LET field == jomqlResolverObject.v[i].k
           entry == jomqlResolverObject.v[i].v
       IN IF entry.dataloader /\ Truthy(entry.query)
          THEN handleAggregatedQueries(
                 joinRecords(resultsArray, field, answer), jomqlResolverObject,
                 i + 1, typename, fieldPath, answer,
                 Append(calls, LoaderCall(field, aggregateIds(resultsArray, field),
                                          entry.query, typename,
                                          Append(fieldPath, field))))
          ELSE IF Truthy(entry.nested)
          THEN LET r == handleAggregatedQueries(
                          nestedResultsArray(resultsArray, field), entry.nested, 1,
                          entry.typename, Append(fieldPath, field), answer, calls)
               IN handleAggregatedQueries(
                    nestedWritten(resultsArray, field, r.rows), jomqlResolverObject,
                    i + 1, typename, fieldPath, answer, r.calls)
          ELSE handleAggregatedQueries(resultsArray, jomqlResolverObject, i + 1,
                                       typename, fieldPath, answer, calls)

(* ---------------------- processJomqlResolverTree ---------------------- *)

\* a call of a resolver function with its input: a root resolver gets no
\* fieldValue, parentValue or data (lines 955-960); parentValue and data are
\* the objects as they are when the call is made
ResolverCall(fieldPath, args, query, fieldValue, parentValue, data) ==
  [fieldPath |-> fieldPath, args |-> args, query |-> query,
   fieldValue |-> fieldValue, parentValue |-> parentValue, data |-> data]

\* the outcome of processJomqlResolverTree: the value returned, the
\* resolver calls made, the shared data, and the results object (the one
\* passed in, or the one the root resolver returned) as the call left it
ProcReturn(value, calls, data, after) ==
  [kind |-> "ok", value |-> value, calls |-> calls, data |-> data, after |-> after]

\* line 971: the field has a resolver of its own and is no root resolver
resolvesHere(typeDef) == typeDef.resolver /\ ~typeDef.root

\* deferred that never defers
deferred_Never(typeDef) == FALSE

\* line 973: the field is flagged defer
deferred(typeDef) == typeDef.defer

\* a resolver writes into the shared data object: its field path is added
resolverWrites(data, fieldPath) == Append(data, fieldPath)

\* childData handing every child a data object of its own
childData_Fresh(data) == <<>>

\* line 996: the data object handed to a child is the caller's own
childData(data) == data

RECURSIVE processJomqlResolverTree(_, _, _, _, _, _, _, _)
RECURSIVE processNested(_, _, _, _, _, _, _)

\* lines 987-1000: the loop over the nested fields from the i-th on.
\* tempReturnValue is results itself, so every child's value is written
\* into results, which is also the parentNode the next child gets
processNested(results, nested, i, data, fieldPath, answer, calls) ==
  IF i > Len(nested.v) THEN {ProcReturn(results, calls, data, results)}
  ELSE UNION {processNested(Put(results, nested.v[i].k, r.value), nested, i + 1,
                            r.data, fieldPath, answer, r.calls) :
              r \in processJomqlResolverTree(Get(results, nested.v[i].k),
                                             nested.v[i].v, results, childData(data),
                                             Append(fieldPath, nested.v[i].k),
                                             FALSE, answer, calls)}

\* lines 943-1003.  answer is what every resolver function returns
processJomqlResolverTree(jomqlResultsNode, jomqlResolverNode, parentNode, data, fieldPath, fullTree, answer, calls) ==
  LET typeDef == jomqlResolverNode.typeDef
      results == IF typeDef.root THEN answer ELSE jomqlResultsNode
      made == IF typeDef.root
              THEN Append(calls, ResolverCall(fieldPath, jomqlResolverNode.args,
                                              jomqlResolverNode.query,
                                              Undef, Undef, Undef))
              ELSE calls
  IN IF typeDef.root /\ ~fullTree
     THEN {ProcReturn(results, made, data, results)}
     ELSE IF resolvesHere(typeDef)
     THEN IF deferred(typeDef) THEN {ProcReturn(Null, made, data, results)}
          ELSE {ProcReturn(answer,
                           Append(made, ResolverCall(fieldPath, jomqlResolverNode.args,
                                                     jomqlResolverNode.query,
                                                     results, parentNode, Arr(data))),
                           resolverWrites(data, fieldPath), results)}
     ELSE IF Truthy(jomqlResolverNode.nested) /\ isObject(results)
     THEN processNested(results, jomqlResolverNode.nested, 1, data, fieldPath,
                        answer, made)
     ELSE {ProcReturn(results, made, data, results)}

(* ------------------------------ inputs --------------------------------- *)

\* the parent field paths an operation is called with
FieldPaths == SeqsUpTo({"user"}, MaxPath)

\* the values lookupValue is configured to
LookupValues == {Bool(TRUE), Null}

O1(k, val) == Obj(<<KV(k, val)>>)
O2(k1, v1, k2, v2) == Obj(<<KV(k1, v1), KV(k2, v2)>>)
O3(k1, v1, k2, v2, k3, v3) == Obj(<<KV(k1, v1), KV(k2, v2), KV(k3, v3)>>)

\* raw args: primitives, keyed objects, arrays of elements
ArgPrimitives ==
  {Undef, Null, Bool(FALSE), Bool(TRUE), Num(0), Num(1), Str(""), Str("1"), Str("x")}
ArgObjects ==
  {Obj(<<>>), O1("limit", Num(1)), O1("limit", Str("1")), O1("limit", Str("x")),
   O1("limit", Null), O1("unknown", Num(1)),
   O2("limit", Str("1"), "unknown", Num(1)),
   O2("unknown", Num(1), "other", Num(2)),
   O3("other", Num(2), "limit", Num(1), "unknown", Num(1)),
   O1("name", Str("a")),
   O2("name", Str("a"), "paging", O1("limit", Str("2"))),
   O2("name", Str("a"), "paging", O1("bogus", Num(1))),
   O2("name", Str("a"), "paging", Null),
   O1("paging", O1("limit", Num(1))),
   O2("name", Str("a"), "ids", Arr(<<Str("1"), Num(2)>>)),
   O2("extra", Num(1), "name", Str("a"))}
ArgElements ==
  {Null, Num(1), Str("x"), O1("limit", Str("1")), O1("unknown", Num(1))}
ArgValues ==
  ArgPrimitives \cup ArgObjects \cup {Arr(s) : s \in SeqsUpTo(ArgElements, MaxElems)}

\* arg definitions: every type with every required, allowNull and
\* arrayOptions setting, and no definition at all
ArgTypes ==
  {ScalarT("string"), ScalarT("number"), InputT("Paging"), InputLookup("Paging"),
   InputLookup("Filter"), InputLookup("Ghost")}
ArgDefinitions ==
  {Undef} \cup {ArgDef(ty, rq, an, ao) :
                  ty \in ArgTypes, rq \in BOOLEAN, an \in BOOLEAN,
                  ao \in {NoArr, ArrOpt(FALSE), ArrOpt(TRUE)}}

\* longest keyed structure (number of keys) handed to the builder
MaxKeys == 2

\* the entries a query on User is made of: declared, hidden (secret) and
\* undeclared (age, toString) fields, sentinels and other right-hand sides,
\* __args
QueryEntries ==
  {KV("__args", Num(0)), KV("__args", Str("1")), KV("__args", O1("limit", Str("1"))),
   KV("__args", O1("unknown", Num(1))),
   KV("id", lookupValue), KV("id", Num(1)), KV("name", lookupSymbol),
   KV("secret", lookupValue), KV("age", lookupValue), KV("toString", lookupValue),
   KV("score", lookupValue), KV("score", O1("__args", Str("1"))),
   KV("posts", lookupValue), KV("posts", O1("id", lookupValue)),
   KV("posts", O2("__args", O1("limit", Str("2")), "title", lookupValue)),
   KV("posts", O1("draft", lookupValue)),
   KV("friend", O1("id", lookupValue)), KV("friend", O1("secret", lookupValue)),
   KV("ghost", O1("id", lookupValue))}

\* the keyed structures of at most MaxKeys entries with distinct keys
QueryObjects ==
  {Obj(s) : s \in {q \in SeqsUpTo(QueryEntries, MaxKeys) :
                     \A i, j \in 1..Len(q) : i # j => q[i].k # q[j].k}}

\* field values: sentinels, other primitives, keyed structures
FieldValues ==
  {Bool(TRUE), Null, lookupSymbol, Num(1), Str("x"), Arr(<<>>)} \cup QueryObjects

\* the definitions the builder starts from: object-typed with and without a
\* resolver and args, leaves with and without required args, a lookup of
\* an unregistered type
ResolverObjects ==
  {FieldDef(ObjectLookup("User"), TRUE, NoArr, Undef, FALSE, FALSE),
   FieldDef(ObjectLookup("User"), TRUE, NoArr, Undef, FALSE, TRUE),
   FieldDef(ObjectT("User"), FALSE, NoArr,
            ArgDef(InputLookup("Paging"), FALSE, FALSE, NoArr), FALSE, TRUE),
   FieldDef(ScalarT("string"), TRUE, NoArr, Undef, FALSE, FALSE),
   FieldDef(ScalarT("number"), TRUE, NoArr,
            ArgDef(ScalarT("number"), TRUE, FALSE, NoArr), FALSE, FALSE),
   FieldDef(ScalarT("number"), TRUE, NoArr,
            ArgDef(InputT("Paging"), FALSE, TRUE, NoArr), FALSE, TRUE),
   FieldDef(ObjectLookup("Ghost"), TRUE, NoArr, Undef, FALSE, FALSE)}

\* the nodes results are validated against, as the builder makes them:
\* scalar leaves, object-typed nodes with and without nested children (a
\* node has nested children only for an object type the registry holds),
\* every allowNull and arrayOptions
LeafNode(type, allowNull) ==
  Node(FieldDef(type, allowNull, NoArr, Undef, FALSE, FALSE), Obj(<<>>), Null, Undef)
NestedSelections ==
  {Undef, Obj(<<>>),
   O1("id", LeafNode(ScalarT("number"), FALSE)),
   O2("id", LeafNode(ScalarT("number"), FALSE),
      "name", LeafNode(ScalarT("string"), TRUE)),
   O2("name", LeafNode(ScalarT("string"), TRUE),
      "friend", Node(FieldDef(ObjectT("User"), TRUE, NoArr, Undef, FALSE, FALSE),
                     Obj(<<>>), Null, O1("id", LeafNode(ScalarT("number"), FALSE))))}
ResultNodes ==
  {node \in
     {Node(FieldDef(ty, an, ao, Undef, FALSE, FALSE), Obj(<<>>), Null, ns) :
        ty \in {ScalarT("string"), ScalarT("number"), ObjectT("User"),
                ObjectLookup("User"), ObjectLookup("Ghost")},
        an \in BOOLEAN, ao \in {NoArr, ArrOpt(FALSE), ArrOpt(TRUE)},
        ns \in NestedSelections} :
     node.nested # Undef
       => node.typeDef.type \in {ObjectT("User"), ObjectLookup("User")}}

\* the results a resolver hands back
ResultElements ==
  {Null, Num(1), Str("x"), O1("id", Num(1)),
   O3("id", Str("2"), "name", Str("a"), "secret", Str("s")), O1("name", Null)}
ResultValues ==
  {Undef, Obj(<<>>),
   O3("name", Str("a"), "friend", O2("secret", Str("s"), "id", Num(2)), "id", Num(1))}
    \cup ResultElements
    \cup {Arr(s) : s \in SeqsUpTo(ResultElements, MaxElems)}

\* sibling rows, the records a dataloader answers with, resolver objects
RowValues ==
  {Null,
   O2("author", Num(1), "title", Str("t")),
   O2("author", Num(2), "title", Str("t")),
   O2("author", Num(1), "meta", O1("owner", Num(2))),
   O1("title", Str("t"))}
RecordValues ==
  {O2("id", Num(1), "name", Str("A")), O2("id", Num(1), "name", Str("B")),
   O2("id", Num(2), "name", Str("C"))}
SubQuery == O1("id", Bool(TRUE))
ResolverObjectTrees ==
  {O1("author", ResolverEntry(TRUE, SubQuery, "User",
                              O1("id", ResolverEntry(FALSE, Undef, "number", Undef)))),
   O1("author", ResolverEntry(TRUE, Undef, "User", Undef)),
   O2("title", ResolverEntry(FALSE, Undef, "string", Undef),
      "author", ResolverEntry(TRUE, SubQuery, "User", Undef)),
   O1("author", ResolverEntry(TRUE, SubQuery, "User",
                              O1("friend", ResolverEntry(TRUE, SubQuery, "User", Undef)))),
   O2("meta", ResolverEntry(FALSE, O1("owner", SubQuery), "Meta",
                            O1("owner", ResolverEntry(TRUE, SubQuery, "User", Undef))),
      "author", ResolverEntry(TRUE, SubQuery, "User", Undef))}

\* the nodes processJomqlResolverTree walks: leaves and object-typed nodes,
\* each plain, with a resolver, deferred, or (object-typed) a root resolver
PlainLeaf == LeafNode(ScalarT("number"), TRUE)
ResolverLeaf ==
  Node(FieldDef(ScalarT("number"), TRUE, NoArr, Undef, FALSE, TRUE),
       Obj(<<>>), Null, Undef)
DeferLeaf == [ResolverLeaf EXCEPT !.typeDef.defer = TRUE]
ObjectNode(resolver, nested) ==
  Node(FieldDef(ObjectT("User"), TRUE, NoArr, Undef, FALSE, resolver),
       Obj(<<>>), Null, nested)
RootNode(nested) == [ObjectNode(TRUE, nested) EXCEPT !.typeDef.root = TRUE]
ProcessNodes ==
  {ObjectNode(FALSE, O2("score", ResolverLeaf, "rank", ResolverLeaf)),
   ObjectNode(FALSE, O3("id", PlainLeaf, "score", ResolverLeaf,
                        "friend", ObjectNode(FALSE, O1("rank", ResolverLeaf)))),
   ObjectNode(FALSE, O3("friend", ObjectNode(TRUE, O1("score", ResolverLeaf)),
                        "rank", DeferLeaf, "score", ResolverLeaf)),
   ObjectNode(TRUE, O1("score", ResolverLeaf)),
   ObjectNode(TRUE, Undef),
   [ObjectNode(TRUE, O1("score", ResolverLeaf)) EXCEPT !.typeDef.defer = TRUE],
   ResolverLeaf, DeferLeaf, PlainLeaf,
   RootNode(O2("score", ResolverLeaf, "id", PlainLeaf)),
   RootNode(Undef)}

\* the results node handed in, the parent node, and what resolvers return
ProcessResults ==
  {Undef, Null, Num(1), Obj(<<>>), O1("id", Num(1)),
   O2("score", Num(1), "rank", Num(2)),
   O3("id", Num(1), "friend", O1("id", Num(2)), "score", Null),
   O2("friend", Null, "id", Num(1))}
ParentNodes == {Undef, O1("id", Num(9))}
ResolverAnswers == {Null, Num(7), O2("id", Num(7), "score", Num(0))}

(* --------------------------- the state machine ------------------------- *)

Idle == [op |-> "none"]

Init ==
  /\ lookupValue \in LookupValues
  /\ pc = "idle"
  /\ call = Idle
  /\ ret = Return(Undef, <<>>)

\* a call of validateExternalArgs(args, argDefinition, fieldPath)
ValidateExternalArgs ==
  /\ pc = "idle"
  /\ \E args \in ArgValues, argDefinition \in ArgDefinitions, fieldPath \in FieldPaths :
       /\ call' = [op |-> "validateExternalArgs", args |-> args,
                   argDefinition |-> argDefinition, fieldPath |-> fieldPath]
       /\ ret' \in validateExternalArgs(args, argDefinition, fieldPath)
  /\ pc' = "done"
  /\ UNCHANGED lookupValue

\* a call of generateJomqlResolverTree(fieldValue, resolverObject,
\* fieldPath, fullTree)
GenerateJomqlResolverTree ==
  /\ pc = "idle"
  /\ \E fieldValue \in FieldValues, resolverObject \in ResolverObjects,
        fieldPath \in FieldPaths, fullTree \in BOOLEAN :
       /\ call' = [op |-> "generateJomqlResolverTree", fieldValue |-> fieldValue,
                   resolverObject |-> resolverObject, fieldPath |-> fieldPath,
                   fullTree |-> fullTree]
       /\ ret' \in generateJomqlResolverTree(fieldValue, resolverObject,
                                             fieldPath, fullTree)
  /\ pc' = "done"
  /\ UNCHANGED lookupValue

\* a call of validateJomqlResults(jomqlResultsNode, jomqlResolverNode,
\* fieldPath)
ValidateJomqlResults ==
  /\ pc = "idle"
  /\ \E jomqlResultsNode \in ResultValues, jomqlResolverNode \in ResultNodes,
        fieldPath \in FieldPaths :
       /\ call' = [op |-> "validateJomqlResults",
                   jomqlResultsNode |-> jomqlResultsNode,
                   jomqlResolverNode |-> jomqlResolverNode, fieldPath |-> fieldPath]
       /\ ret' \in validateJomqlResults(jomqlResultsNode, jomqlResolverNode, fieldPath)
  /\ pc' = "done"
  /\ UNCHANGED lookupValue

\* a call of handleAggregatedQueries(resultsArray, jomqlResolverObject,
\* typename, req, args, fieldPath), its dataloaders answering with answer
HandleAggregatedQueries ==
  /\ pc = "idle"
  /\ \E resultsArray \in SeqsUpTo(RowValues, MaxRows),
        jomqlResolverObject \in ResolverObjectTrees,
        answer \in SeqsUpTo(RecordValues, MaxRecords) :
       /\ call' = [op |-> "handleAggregatedQueries", resultsArray |-> resultsArray,
                   jomqlResolverObject |-> jomqlResolverObject, answer |-> answer]
       /\ ret' = handleAggregatedQueries(resultsArray, jomqlResolverObject, 1,
                                         "Post", <<>>, answer, <<>>)
  /\ pc' = "done"
  /\ UNCHANGED lookupValue

\* a call of processJomqlResolverTree({jomqlResultsNode, jomqlResolverNode,
\* parentNode, req, fieldPath, fullTree}), data defaulting to a new object,
\* every resolver answering with answer
ProcessJomqlResolverTree ==
  /\ pc = "idle"
  /\ \E jomqlResultsNode \in ProcessResults, jomqlResolverNode \in ProcessNodes,
        parentNode \in ParentNodes, fieldPath \in FieldPaths,
        fullTree \in BOOLEAN, answer \in ResolverAnswers :
       /\ call' = [op |-> "processJomqlResolverTree",
                   jomqlResultsNode |-> jomqlResultsNode,
                   jomqlResolverNode |-> jomqlResolverNode,
                   parentNode |-> parentNode, fieldPath |-> fieldPath,
                   fullTree |-> fullTree, answer |-> answer]
       /\ ret' \in processJomqlResolverTree(jomqlResultsNode, jomqlResolverNode,
                                            parentNode, <<>>, fieldPath, fullTree,
                                            answer, <<>>)
  /\ pc' = "done"
  /\ UNCHANGED lookupValue

\* the request is over: its trees are dropped
Finish ==
  /\ pc = "done"
  /\ pc' = "idle"
  /\ call' = Idle
  /\ ret' = Return(Undef, <<>>)
  /\ UNCHANGED lookupValue

Next ==
  \/ ValidateExternalArgs
  \/ GenerateJomqlResolverTree
  \/ ValidateJomqlResults
  \/ HandleAggregatedQueries
  \/ ProcessJomqlResolverTree
  \/ Finish

Spec == Init /\ [][Next]_vars

(* ------------------------------- claims -------------------------------- *)

\* a field the object type does not declare (none of the fields it lists
\* has the name), or declares hidden
Offending(typeName, field) ==
  \A i \in 1..Len(ObjectTypeDefinition(typeName)) :
     ObjectTypeDefinition(typeName)[i].k = field
       => ObjectTypeDefinition(typeName)[i].v.hidden

\* a builder call on an object type the registry resolves, with a keyed
\* structure as the query
OnObjectType ==
  /\ call.op = "generateJomqlResolverTree"
  /\ IsObjectKind(call.resolverObject.type)
  /\ call.resolverObject.type.name \in objectTypeDefs
  /\ isObject(call.fieldValue)

\* the args of the call validate, and every key before the i-th is accepted
\* (its own subtree too, where the builder descends)
NothingFailsBefore(i) ==
  /\ \A a \in validateExternalArgs(Get(call.fieldValue, "__args"),
                                   call.resolverObject.args,
                                   Append(call.fieldPath, "__args")) : a.kind = "ok"
  /\ \A j \in 1..(i - 1) :
       \/ call.fieldValue.v[j].k = "__args"
       \/ /\ ~Offending(call.resolverObject.type.name, call.fieldValue.v[j].k)
          /\ \/ ~call.fullTree /\ call.resolverObject.resolver
             \/ \A r \in generateJomqlResolverTree(
                           call.fieldValue.v[j].v,
                           FieldOf(ObjectTypeDefinition(call.resolverObject.type.name),
                                   call.fieldValue.v[j].k),
                           Append(call.fieldPath, call.fieldValue.v[j].k),
                           call.fullTree) : r.kind = "ok"

RECURSIVE NoOffendingNode(_)
\* no node of the tree stands for an undeclared or hidden field of the type
\* of its parent
NoOffendingNode(node) ==
  node.nested = Undef
  \/ \A i \in 1..Len(node.nested.v) :
       /\ ~Offending(node.typeDef.type.name, node.nested.v[i].k)
       /\ NoOffendingNode(node.nested.v[i].v)

\* C1: a query on an object type that requests a key (other than __args)
\* the type does not declare or declares hidden never yields a node, whatever
\* fullTree and the resolver of the parent; the error is a QueryError at the
\* parent path followed by that key, when nothing before the key fails
\* first; and no tree that is built holds a node for such a field at any
\* depth.
C1_OffendingFieldRejected ==
  /\ OnObjectType =>
       \A i \in 1..Len(call.fieldValue.v) :
         (/\ call.fieldValue.v[i].k # "__args"
          /\ Offending(call.resolverObject.type.name, call.fieldValue.v[i].k))
         => /\ ret.kind # "ok"
            /\ NothingFailsBefore(i) =>
                 /\ ret.kind = "JomqlQueryError"
                 /\ ret.fieldPath = Append(call.fieldPath, call.fieldValue.v[i].k)
  /\ (call.op = "generateJomqlResolverTree" /\ ret.kind = "ok")
       => NoOffendingNode(ret.value)

\* C7: validateExternalArgs with rawArgs undefined and a definition whose
\* required flag is set raises ArgsError "Args is required" with the given
\* field path, for every type, allowNull and arrayOptions.
C7_RequiredArgsMissing ==
  (/\ call.op = "validateExternalArgs"
   /\ call.args = Undef
   /\ call.argDefinition # Undef
   /\ call.argDefinition.required)
  => /\ ret.kind = "JomqlArgsError"
     /\ ret.message.text = "Args is required"
     /\ ret.fieldPath = call.fieldPath

\* required args missing for a nullable array of a registered input type
C7_Witness ==
  /\ call.op = "validateExternalArgs"
  /\ call.args = Undef
  /\ call.argDefinition # Undef
  /\ call.argDefinition.required /\ call.argDefinition.allowNull
  /\ call.argDefinition.arrayOptions.set
  /\ call.argDefinition.type = InputLookup("Filter")
  /\ ret.kind = "JomqlArgsError"

\* a validateExternalArgs call with one keyed object for a registered input
\* type, which the checks before the input branch let through
OnInputObject ==
  /\ call.op = "validateExternalArgs"
  /\ call.argDefinition # Undef
  /\ call.argDefinition.type.kind \in {"input", "inputLookup"}
  /\ call.argDefinition.type.name \in inputTypeDefs
  /\ ~call.argDefinition.arrayOptions.set
  /\ isObject(call.args)

\* the keys of the object the input type does not declare
UndeclaredKeys ==
  KeySet(call.args)
    \ {InputTypeDefinition(call.argDefinition.type.name).fields[i].k :
         i \in 1..Len(InputTypeDefinition(call.argDefinition.type.name).fields)}

\* every declared field of the object validates
DeclaredFieldsValid ==
  \A r \in validateInputFields(call.args,
                               InputTypeDefinition(call.argDefinition.type.name).fields,
                               1, call.fieldPath, <<>>) : r.kind = "ok"

\* C8: an object for an input type that holds undeclared keys, its declared
\* fields all valid, raises one ArgsError whose message names every
\* undeclared key, each once, and inputsValidator is not invoked for it.
C8_UnknownArgsTogether ==
  (OnInputObject /\ UndeclaredKeys # {} /\ DeclaredFieldsValid)
  => /\ ret.kind = "JomqlArgsError"
     /\ ret.message.text = "Unknown args"
     /\ ret.fieldPath = call.fieldPath
     /\ SeqToSet(ret.message.keys) = UndeclaredKeys
     /\ Len(ret.message.keys) = Cardinality(UndeclaredKeys)
     /\ \A i \in 1..Len(ret.calls) :
          ~(ret.calls[i].fn = "inputsValidator"
            /\ ret.calls[i].fieldPath = call.fieldPath)

\* two undeclared keys around a declared one, for a type with an
\* inputsValidator: one error names both
C8_Witness ==
  /\ OnInputObject
  /\ call.argDefinition.type.name = "Paging"
  /\ Keys(call.args) = <<"other", "limit", "unknown">>
  /\ ret.kind = "JomqlArgsError"
  /\ ret.message.keys = <<"other", "unknown">>

\* the value is the configured sentinel or the lookup symbol
Sentinel(value) == value = lookupValue \/ value = lookupSymbol

\* the shapes of a field value the claim lists as accepted
AcceptedShape(fieldValue, resolverObject) ==
  IF IsObjectKind(resolverObject.type) THEN isObject(fieldValue)
  ELSE \/ /\ Sentinel(fieldValue)
          /\ ~(resolverObject.args # Undef /\ resolverObject.args.required)
       \/ isObject(fieldValue) /\ Keys(fieldValue) = <<"__args">>

\* C9: the builder raises QueryError with the field's own path exactly for
\* the field values outside the accepted shapes: a leaf takes the sentinel
\* (not when its args are required) or a keyed structure holding __args
\* alone, an object field takes a keyed structure and never the sentinel.
C9_FieldValueShapes ==
  (/\ call.op = "generateJomqlResolverTree"
   /\ (call.resolverObject.type.kind = "objectLookup"
         => call.resolverObject.type.name \in objectTypeDefs))
  => (~AcceptedShape(call.fieldValue, call.resolverObject)
        <=> (ret.kind = "JomqlQueryError" /\ ret.fieldPath = call.fieldPath))

\* the bare sentinel on a leaf whose args are required is rejected
C9_Witness ==
  /\ call.op = "generateJomqlResolverTree"
  /\ ~IsObjectKind(call.resolverObject.type)
  /\ call.resolverObject.args # Undef
  /\ call.resolverObject.args.required
  /\ call.fieldValue = lookupValue
  /\ ret.kind = "JomqlQueryError"
  /\ ret.message.text = "Args required"
  /\ ret.fieldPath = call.fieldPath

\* C10: validateExternalArgs without an arg definition raises ArgsError for
\* every supplied value other than undefined and null (false, 0 and the
\* empty string included) and returns without error only for those two.
C10_NoArgsExpected ==
  (call.op = "validateExternalArgs" /\ call.argDefinition = Undef)
  => IF call.args \in {Undef, Null}
     THEN ret.kind = "ok"
     ELSE ret.kind = "JomqlArgsError" /\ ret.fieldPath = call.fieldPath

\* the fields of the resolver object of an aggregation call that own a
\* dataloader and are present in the query
LoaderFields ==
  {call.jomqlResolverObject.v[i].k : i \in
     {j \in 1..Len(call.jomqlResolverObject.v) :
        /\ call.jomqlResolverObject.v[j].v.dataloader
        /\ call.jomqlResolverObject.v[j].v.query # Undef}}

\* the fields the aggregator descends into instead
DescendedFields ==
  {call.jomqlResolverObject.v[i].k : i \in
     {j \in 1..Len(call.jomqlResolverObject.v) :
        /\ call.jomqlResolverObject.v[j].k \notin LoaderFields
        /\ call.jomqlResolverObject.v[j].v.nested # Undef}}

\* the positions of the non-null rows
NonNullRows == {n \in 1..Len(call.resultsArray) : call.resultsArray[n] # Null}

\* the dataloader calls made for the field of the sibling array itself
CallsFor(field) ==
  {j \in 1..Len(ret.calls) : ret.calls[j].fieldPath = <<field>>}

\* C2: for a sibling array of N rows and a field with a dataloader that the
\* query holds, the dataloader is invoked exactly once, and the id list it
\* gets holds every value the non-null rows hold at the field, each once,
\* and nothing else.
C2_OneCallDistinctIds ==
  call.op = "handleAggregatedQueries"
  => \A f \in LoaderFields :
       /\ Cardinality(CallsFor(f)) = 1
       /\ \A j \in CallsFor(f) :
            /\ ret.calls[j].field = f
            /\ \A a, b \in 1..Len(ret.calls[j].ids) :
                 a # b => ret.calls[j].ids[a] # ret.calls[j].ids[b]
            /\ SeqToSet(ret.calls[j].ids)
                 = {Get(call.resultsArray[n], f) : n \in NonNullRows}
            /\ Len(ret.calls[j].ids) <= Len(call.resultsArray)

\* three rows that share two keys: one call, two ids
C2_Witness ==
  /\ call.op = "handleAggregatedQueries"
  /\ Len(call.resultsArray) = 3
  /\ NonNullRows = {1, 2, 3}
  /\ LoaderFields = {"author"}
  /\ \E j \in CallsFor("author") : ret.calls[j].ids = <<Num(1), Num(2)>>

\* C3: after the aggregation every non-null row holds at a dataloader field
\* the returned record whose id is the key the row held, or null/undefined
\* when no returned record has that id; the array keeps its length and
\* order, null rows stay null, and no other field of a row changes.
C3_RowsJoinedInPlace ==
  call.op = "handleAggregatedQueries"
  => /\ Len(ret.rows) = Len(call.resultsArray)
     /\ \A n \in 1..Len(call.resultsArray) :
          IF call.resultsArray[n] = Null THEN ret.rows[n] = Null
          ELSE /\ isObject(ret.rows[n])
               /\ \A f \in LoaderFields :
                    IF \E r \in SeqToSet(call.answer) :
                         Get(r, "id") = Get(call.resultsArray[n], f)
                    THEN /\ Get(ret.rows[n], f) \in SeqToSet(call.answer)
                         /\ Get(Get(ret.rows[n], f), "id")
                              = Get(call.resultsArray[n], f)
                    ELSE IsNullish(Get(ret.rows[n], f))
               /\ KeySet(ret.rows[n]) \subseteq KeySet(call.resultsArray[n]) \cup LoaderFields
               /\ \A k \in KeySet(call.resultsArray[n]) \ (LoaderFields \cup DescendedFields) :
                    Get(ret.rows[n], k) = Get(call.resultsArray[n], k)

\* a matched row, a null row and an unmatched row: record, null, undefined
C3_Witness ==
  /\ call.op = "handleAggregatedQueries"
  /\ LoaderFields = {"author"}
  /\ call.resultsArray = <<O2("author", Num(1), "title", Str("t")), Null,
                           O2("author", Num(2), "title", Str("t"))>>
  /\ call.answer = <<O2("id", Num(1), "name", Str("A"))>>
  /\ ret.rows = <<O2("author", O2("id", Num(1), "name", Str("A")), "title", Str("t")),
                  Null,
                  O2("author", Undef, "title", Str("t"))>>

\* C4: a null result for a leaf node whose definition has allowNull false
\* and no arrayOptions raises ResultError with the field path, with or
\* without a serialize function on the scalar, and serialize is not called.
C4_NullLeafRejected ==
  (/\ call.op = "validateJomqlResults"
   /\ call.jomqlResolverNode.nested = Undef
   /\ ~call.jomqlResolverNode.typeDef.allowNull
   /\ ~call.jomqlResolverNode.typeDef.arrayOptions.set
   /\ call.jomqlResultsNode = Null)
  => /\ ret.kind = "JomqlResultError"
     /\ ret.fieldPath = call.fieldPath
     /\ ret.calls = <<>>

\* the null leaf of a scalar that has a serialize function
C4_Witness ==
  /\ call.op = "validateJomqlResults"
  /\ call.jomqlResolverNode.nested = Undef
  /\ call.jomqlResolverNode.typeDef = FieldDef(ScalarT("number"), FALSE, NoArr,
                                               Undef, FALSE, FALSE)
  /\ ScalarDefinition("number").serialize
  /\ call.jomqlResultsNode = Null
  /\ Len(call.fieldPath) = 1
  /\ ret.kind = "JomqlResultError"

\* a validateJomqlResults call on a node whose definition has arrayOptions
\* and whose type the registry resolves
OnArrayNode ==
  /\ call.op = "validateJomqlResults"
  /\ call.jomqlResolverNode.typeDef.arrayOptions.set
  /\ (call.jomqlResolverNode.typeDef.type.kind = "objectLookup"
        => call.jomqlResolverNode.typeDef.type.name \in objectTypeDefs)

\* C5: on a node with arrayOptions, leaf or with nested children, a result
\* that is neither an array nor null raises ResultError; a null result is
\* returned as null when allowNull is set and raises ResultError when not.
C5_ArrayShape ==
  OnArrayNode
  => /\ (~IsArray(call.jomqlResultsNode) /\ call.jomqlResultsNode # Null)
          => ret.kind = "JomqlResultError"
     /\ call.jomqlResultsNode = Null
          => IF call.jomqlResolverNode.typeDef.allowNull
             THEN ret.kind = "ok" /\ ret.value = Null
             ELSE ret.kind = "JomqlResultError"

\* C6: on a node with arrayOptions and nested children, a null element of
\* the array yields null at its position when allowNullElement is set and a
\* ResultError when not; no error of another kind escapes.
C6_NullElements ==
  (/\ OnArrayNode
   /\ call.jomqlResolverNode.nested # Undef
   /\ IsArray(call.jomqlResultsNode))
  => /\ ret.kind \in {"ok", "JomqlResultError"}
     /\ \A i \in 1..Len(call.jomqlResultsNode.v) :
          call.jomqlResultsNode.v[i] = Null
          => IF call.jomqlResolverNode.typeDef.arrayOptions.allowNullElement
             THEN ret.kind = "ok" => ret.value.v[i] = Null
             ELSE ret.kind = "JomqlResultError" /\ ret.fieldPath = call.fieldPath

\* a validateExternalArgs call with a value for a registered input type
OnInputValue ==
  /\ call.op = "validateExternalArgs"
  /\ call.argDefinition # Undef
  /\ call.argDefinition.type.kind \in {"input", "inputLookup"}
  /\ call.argDefinition.type.name \in inputTypeDefs
  /\ call.args # Undef

\* the value has a shape the claim lets an input type take: a keyed object
\* or an allowed null; under arrayOptions an array of keyed objects and
\* allowed null elements, or an allowed null
InputShape(args, argDefinition) ==
  IF argDefinition.arrayOptions.set
  THEN \/ args = Null /\ argDefinition.allowNull
       \/ /\ IsArray(args)
          /\ \A i \in 1..Len(args.v) :
               \/ isObject(args.v[i])
               \/ args.v[i] = Null /\ argDefinition.arrayOptions.allowNullElement
  ELSE isObject(args) \/ (args = Null /\ argDefinition.allowNull)

\* C11: for an input type, validateExternalArgs accepts a value (under
\* arrayOptions each element) only if it is a keyed object, or null where
\* allowNull (a single value) or allowNullElement (an element) allows it;
\* every other value raises ArgsError, whatever allowNull and
\* allowNullElement are.
C11_InputTakesObjects ==
  OnInputValue
  => /\ ret.kind = "ok" => InputShape(call.args, call.argDefinition)
     /\ ~InputShape(call.args, call.argDefinition) => ret.kind = "JomqlArgsError"

\* the call failed on a lookup of a type the registry does not hold (lines
\* 531, 704 and 826)
UnresolvedLookupRaised ==
  /\ call.op \in {"validateExternalArgs", "generateJomqlResolverTree",
                  "validateJomqlResults"}
  /\ ret.kind # "ok"
  /\ ret.message.text \in {"TypeDef not found", "Unknown inputDef"}

\* C12: a lookup of a type that is not in the registry (an object type in
\* the builder and in the result validator, an input type in the args
\* validator) is raised as an error of a kind of its own, never as an
\* ArgsError or a QueryError.
C12_UnresolvedLookupKind ==
  UnresolvedLookupRaised => ret.kind \notin {"JomqlArgsError", "JomqlQueryError"}

\* C13: the node built with fullTree false for a field that owns a
\* resolver has nested undefined, not an empty mapping, for an object-typed
\* field as for a leaf; nested is a mapping only when fullTree is true or
\* the field has no resolver.
C13_ResolverFieldNotNested ==
  (call.op = "generateJomqlResolverTree" /\ ret.kind = "ok")
  => /\ (~call.fullTree /\ call.resolverObject.resolver)
          => ret.value.nested = Undef
     /\ isObject(ret.value.nested)
          => (call.fullTree \/ ~call.resolverObject.resolver)

\* C14: the node the builder returns for a field value that holds __args
\* has for args the value validateExternalArgs returns for them (every
\* scalar parseValue applied, also when the arg's own type is a scalar),
\* and for query the field value without __args.
C14_NodeArgsValidated ==
  (/\ call.op = "generateJomqlResolverTree"
   /\ ret.kind = "ok"
   /\ isObject(call.fieldValue)
   /\ HasKey(call.fieldValue, "__args"))
  => /\ ret.value.args \in
          {a.value : a \in validateExternalArgs(Get(call.fieldValue, "__args"),
                                                call.resolverObject.args,
                                                Append(call.fieldPath, "__args"))}
     /\ ret.value.query = Del(ret.after, "__args")

\* a processJomqlResolverTree call on a node that is no root resolver and
\* whose field definition has a resolver
OnResolverField ==
  /\ call.op = "processJomqlResolverTree"
  /\ call.jomqlResolverNode.typeDef.resolver
  /\ ~call.jomqlResolverNode.typeDef.root

\* C15: on a non-root node whose field has a resolver, a deferred field
\* returns null and no resolver is invoked; otherwise that resolver is
\* invoked exactly once, its result is returned as it is, and no resolver
\* of a node nested beneath the field is invoked.
C15_FieldResolverOnly ==
  OnResolverField
  => IF call.jomqlResolverNode.typeDef.defer
     THEN ret.value = Null /\ ret.calls = <<>>
     ELSE /\ Len(ret.calls) = 1
          /\ ret.calls[1].fieldPath = call.fieldPath
          /\ ret.calls[1].fieldValue = call.jomqlResultsNode
          /\ ret.value = call.answer

\* a resolver field that carries a nested child with a resolver of its own,
\* on a structured result: one call, the field's
C15_Witness ==
  /\ OnResolverField
  /\ ~call.jomqlResolverNode.typeDef.defer
  /\ call.jomqlResolverNode.nested = O1("score", ResolverLeaf)
  /\ isObject(call.jomqlResultsNode)
  /\ Len(call.fieldPath) = 1
  /\ call.answer = O2("id", Num(7), "score", Num(0))
  /\ ret.value = call.answer
  /\ Len(ret.calls) = 1

\* a processJomqlResolverTree call that walks the children of its node: the
\* node has nested children and no resolver of its own to call (a root
\* resolver's node with fullTree set included)
OnNestedWalk ==
  /\ call.op = "processJomqlResolverTree"
  /\ call.jomqlResolverNode.nested # Undef
  /\ IF call.jomqlResolverNode.typeDef.root THEN call.fullTree
     ELSE ~call.jomqlResolverNode.typeDef.resolver

\* the number of calls of the root resolver at the head of ret.calls
RootCalls == IF call.jomqlResolverNode.typeDef.root THEN 1 ELSE 0

\* the position in the nested mapping of the child a resolver call belongs to
ChildIndex(resolverCall) ==
  CHOOSE i \in 1..Len(call.jomqlResolverNode.nested.v) :
    call.jomqlResolverNode.nested.v[i].k
      = resolverCall.fieldPath[Len(call.fieldPath) + 1]

\* C16: within one call the children of a node are resolved one after
\* another in the iteration order of the nested mapping: a child's resolver
\* is invoked after every resolver of the earlier siblings, all of them get
\* the same data object, and each sees in it the writes of all the
\* resolvers invoked before it.
C16_SiblingsInOrder ==
  OnNestedWalk
  => \A k \in (RootCalls + 1)..Len(ret.calls) :
       /\ ret.calls[k].data
            = Arr([j \in 1..(k - 1 - RootCalls) |-> ret.calls[j + RootCalls].fieldPath])
       /\ \A j \in (RootCalls + 1)..(k - 1) :
            ChildIndex(ret.calls[j]) <= ChildIndex(ret.calls[k])
       /\ \A j \in (RootCalls + 1)..Len(ret.calls) :
            ret.calls[j].fieldPath = ret.calls[k].fieldPath => j = k

\* two sibling resolvers: the second is invoked after the first and sees
\* its write
C16_Witness ==
  /\ OnNestedWalk
  /\ Keys(call.jomqlResolverNode.nested) = <<"score", "rank">>
  /\ Len(call.fieldPath) = 1
  /\ Len(ret.calls) = 2
  /\ ret.calls[1].fieldPath = Append(call.fieldPath, "score")
  /\ ret.calls[2].fieldPath = Append(call.fieldPath, "rank")
  /\ ret.calls[1].data = Arr(<<>>)
  /\ ret.calls[2].data = Arr(<<Append(call.fieldPath, "score")>>)

\* the resolver object one level below a field the aggregator descends into
NestedOf(field) == Get(call.jomqlResolverObject, field).nested

\* the fields one level below field that own a dataloader and have a query
NestedLoaderFields(field) ==
  {NestedOf(field).v[i].k : i \in
     {j \in 1..Len(NestedOf(field).v) :
        /\ NestedOf(field).v[j].v.dataloader
        /\ NestedOf(field).v[j].v.query # Undef}}

\* the positions of the siblings that hold a value at field
HoldersOf(field) ==
  {n \in NonNullRows : Truthy(Get(call.resultsArray[n], field))}

\* C17: for a field with nested children and no dataloader the aggregator
\* recurses once with the siblings' values at the field, in their order; so
\* a dataloader field one level down is invoked exactly once for the whole
\* group, whatever the number of rows, each sibling's value gets its own
\* join, and nothing is invoked beneath a dataloader field.
C17_OneCallPerDepth ==
  call.op = "handleAggregatedQueries"
  => /\ \A f \in DescendedFields : \A g \in NestedLoaderFields(f) :
          /\ Cardinality({j \in 1..Len(ret.calls) :
                            ret.calls[j].fieldPath = <<f, g>>}) = 1
          /\ \A j \in 1..Len(ret.calls) :
               ret.calls[j].fieldPath = <<f, g>>
               => /\ SeqToSet(ret.calls[j].ids)
                       = {Get(Get(call.resultsArray[n], f), g) : n \in HoldersOf(f)}
                  /\ Len(ret.calls[j].ids) <= Cardinality(HoldersOf(f))
                  /\ ret.calls[j].typename = Get(call.jomqlResolverObject, f).typename
          /\ \A n \in HoldersOf(f) :
               Get(Get(ret.rows[n], f), g)
                 = recordMapGet(call.answer, Get(Get(call.resultsArray[n], f), g))
     /\ \A j \in 1..Len(ret.calls) :
          \/ /\ Len(ret.calls[j].fieldPath) = 1
             /\ ret.calls[j].fieldPath[1] \in LoaderFields
          \/ /\ Len(ret.calls[j].fieldPath) = 2
             /\ ret.calls[j].fieldPath[1] \in DescendedFields
             /\ ret.calls[j].fieldPath[2] \in NestedLoaderFields(ret.calls[j].fieldPath[1])

\* a null sibling, a sibling without the field, and one that holds a nested
\* object: one call one level down, the join written at the third position
C17_Witness ==
  /\ call.op = "handleAggregatedQueries"
  /\ DescendedFields = {"meta"}
  /\ call.resultsArray = <<Null, O1("title", Str("t")),
                           O2("author", Num(1), "meta", O1("owner", Num(2)))>>
  /\ call.answer = <<O2("id", Num(2), "name", Str("C"))>>
  /\ \E j \in 1..Len(ret.calls) :
       /\ ret.calls[j].fieldPath = <<"meta", "owner">>
       /\ ret.calls[j].ids = <<Num(2)>>
  /\ Get(Get(ret.rows[3], "meta"), "owner") = O2("id", Num(2), "name", Str("C"))

\* the object a nested walk starts from: the results node passed in, or
\* what the root resolver returned
WalkedResults ==
  IF call.jomqlResolverNode.typeDef.root THEN call.answer
  ELSE call.jomqlResultsNode

\* C18: resolving the nested children of a structured result writes their
\* values into a copy: the object passed in as results node (or returned
\* by the root resolver) is left as it was, and the parentValue a child's
\* resolver gets holds none of the values resolved for earlier siblings.
C18_ResultsCopied ==
  OnNestedWalk
  => /\ ret.after = WalkedResults
     /\ \A k \in (RootCalls + 1)..Len(ret.calls) :
          Len(ret.calls[k].fieldPath) = Len(call.fieldPath) + 1
          => ret.calls[k].parentValue = WalkedResults

RECURSIVE ExactKeys(_, _)
\* value, returned for node, has exactly the keys of the node's nested
\* mapping where it is an object (each element, where it is an array), and
\* so has every object in it that was returned for a child with nested
\* children
ExactKeys(value, node) ==
  \/ node.nested = Undef
  \/ IF IsArray(value)
     THEN \A i \in 1..Len(value.v) :
            ExactKeys(value.v[i], [node EXCEPT !.typeDef.arrayOptions = NoArr])
     ELSE isObject(value)
          => /\ KeySet(value) = KeySet(node.nested)
             /\ Len(value.v) = Len(node.nested.v)
             /\ \A i \in 1..Len(node.nested.v) :
                  ExactKeys(Get(value, node.nested.v[i].k), node.nested.v[i].v)

\* the result is structured: an object, or under arrayOptions an array of
\* objects
Structured(value, node) ==
  IF node.typeDef.arrayOptions.set
  THEN IsArray(value) /\ \A i \in 1..Len(value.v) : isObject(value.v[i])
  ELSE isObject(value)

\* C19: for a node with nested children and a structured result, every
\* object validateJomqlResults returns has exactly the keys of the nested
\* mapping of its node, at any depth: a key of the result that the query
\* did not request is not in the output.
C19_OnlyRequestedKeys ==
  (/\ call.op = "validateJomqlResults"
   /\ call.jomqlResolverNode.nested # Undef
   /\ Structured(call.jomqlResultsNode, call.jomqlResolverNode)
   /\ ret.kind = "ok")
  => /\ Structured(ret.value, call.jomqlResolverNode)
     /\ ExactKeys(ret.value, call.jomqlResolverNode)

\* a result with a hidden key and a nested object with a hidden key: both
\* are left out
C19_Witness ==
  /\ call.op = "validateJomqlResults"
  /\ call.jomqlResultsNode
       = O3("name", Str("a"), "friend", O2("secret", Str("s"), "id", Num(2)),
            "id", Num(1))
  /\ call.jomqlResolverNode.nested # Undef
  /\ Keys(call.jomqlResolverNode.nested) = <<"name", "friend">>
  /\ ret.kind = "ok"
  /\ ret.value = O2("name", Str("a"), "friend", O1("id", Num(2)))

====
